---- MODULE Spec2Model ----
(***************************************************************************)
(* The two Ray AIR example notebooks as state machines.                    *)
(*                                                                         *)
(*   sklearn_example.ipynb : prepare_data, train_sklearn, predict_sklearn  *)
(*   upload_to_wandb.ipynb : get_train_dataset, train_model                *)
(*                                                                         *)
(* Both notebooks drive one trial through trainer.fit(); the trial, its    *)
(* results and checkpoints and the Weights & Biases logging process are    *)
(* modelled as the notebooks' recorded output shows them.  The test        *)
(* manifest that follows the first notebook in its file is modelled too:   *)
(* its targets, the files they are built from and the tests they run.      *)
(***************************************************************************)
EXTENDS Integers, Sequences, FiniteSets

VARIABLES
    pc,                          \* position of the notebook's driver
    cuMLRandomForestClassifier,  \* "None" after a failed import, else "cuml"
    num_rows,                    \* rows the breast-cancer loader returns
    args,                        \* arguments of the running train_sklearn call
    error,                       \* exception that ended the cell, or "none"
    prepared,                    \* last return value of prepare_data
    train_dataset,               \* upload_to_wandb: the dataset handed to train_model
    trainer,                     \* the constructed trainer
    trial,                       \* the trial that trainer.fit() runs
    result,                      \* the Result returned to the notebook
    batch_predictor,             \* predict_sklearn: the predictor's checkpoint
    predicted_labels,            \* predict_sklearn: the labels printed
    wandb_queue,                 \* items sent to the W&B logging process
    wandb,                       \* the W&B logging process of the trial
    notebook,                    \* the notebook whose cells are run
    samples,                     \* argument given to categorical_column
    column,                      \* the column categorical_column returned
    frames,                      \* a batch, and what the label function made of it
    declared,                    \* manifest: statements evaluated so far
    changed,                     \* manifest: files changed since the last test run
    stale,                       \* manifest: tests whose inputs have changed
    running                      \* manifest: tests running on the machine

vars == <<pc, cuMLRandomForestClassifier, num_rows, args, error, prepared,
          train_dataset, trainer, trial, result, batch_predictor,
          predicted_labels, wandb_queue, wandb, notebook, samples, column,
          frames, declared, changed, stale, running>>

None == "None"

(* An optional value: Nothing, or Some(x). *)
Nothing == <<>>

Some(x) == <<x>>

Has(o) == Len(o) = 1

Get(o) == o[1]

(* Bounds of the model. *)
MaxRows == 4

MaxSamples == 5

MaxBatch == 2

MaxApplications == 2

(***************************************************************************)
(* The data source.  load_breast_cancer returns a feature matrix and a     *)
(* label vector; row i's feature vector is stood for by one number that    *)
(* differs from row to row.                                                *)
(***************************************************************************)
FeatureOf(i) == 10 + i

TargetOf(i) == IF i % 3 = 0 THEN 0 ELSE 1

load_breast_cancer(n) ==
    [data |-> [i \in 1..n |-> FeatureOf(i)],
     target |-> [i \in 1..n |-> TargetOf(i)]]

(* math.ceil(a / b) for naturals a and b > 0. *)
Ceil(a, b) == (a + b - 1) \div b

(* ["A", "B"] * k *)
RECURSIVE Repeat(_, _)
Repeat(s, k) == IF k <= 0 THEN <<>> ELSE s \o Repeat(s, k - 1)

(* Mutant: the list is not cut. *)
Take_uncut(s, n) == s

(* s[:n] *)
Take(s, n) == SubSeq(s, 1, IF n < Len(s) THEN n ELSE Len(s))

categorical_column(num_samples) ==
    Take(Repeat(<<"A", "B">>, Ceil(num_samples, 2)), num_samples)

(* df.drop(col, axis=1) on one row. *)
DropColumn(row, col) == [c \in (DOMAIN row) \ {col} |-> row[c]]

Drop(df, col) == [k \in 1..Len(df) |-> DropColumn(df[k], col)]

Shuffles(n) ==
    {p \in [1..n -> 1..n] : \A a, b \in 1..n : p[a] = p[b] => a = b}

(* Mutant: the test share is rounded down. *)
NumTest_floor(n) == (3 * n) \div 10

(* test_size = 0.3: n_test = ceil(0.3 * n), n_train = n - n_test. *)
NumTest(n) == Ceil(3 * n, 10)

(* Mutant: the train frame starts one row early and overlaps the test frame. *)
train_test_split_overlap(df, perm) ==
    LET n == Len(df)
        n_test == Ceil(3 * n, 10)
    IN  <<[k \in 1..(n - n_test) |-> df[perm[n_test + k - 1]]],
          [k \in 1..n_test |-> df[perm[k]]]>>

(* train_test_split(df, test_size=0.3) with the shuffle perm: the first     *)
(* n_test rows of the shuffled frame are the test frame, the rest the train *)
(* frame.  Returns <<train_df, test_df>>.                                   *)
train_test_split(df, perm) ==
    LET n == Len(df)
        n_test == NumTest(n)
    IN  <<[k \in 1..(n - n_test) |-> df[perm[n_test + k]]],
          [k \in 1..n_test |-> df[perm[k]]]>>

(* The frame prepare_data builds before the split. *)
dataset_df(n) ==
    LET data_raw == load_breast_cancer(n)
        cat == categorical_column(n)
    IN  [i \in 1..n |->
            [features |-> data_raw.data[i],
             target |-> data_raw.target[i],
             categorical_column |-> IF i <= Len(cat) THEN cat[i] ELSE "NaN"]]

(* Mutant: the test dataset is built from the train frame. *)
prepare_data_test_from_train(n, perm) ==
    LET split == train_test_split(dataset_df(n), perm)
    IN  [train_dataset |-> split[1],
         valid_dataset |-> split[2],
         test_dataset |-> Drop(split[1], "target")]

prepare_data(n, perm) ==
    LET split == train_test_split(dataset_df(n), perm)
        train_df == split[1]
        test_df == split[2]
    IN  [train_dataset |-> train_df,
         valid_dataset |-> test_df,
         test_dataset |-> Drop(test_df, "target")]

(***************************************************************************)
(* trainer.fit(): one trial.  The trainable reports one result per         *)
(* training iteration, each with should_checkpoint, and a checkpoint is    *)
(* saved after each; when the trainable is finished the last result is     *)
(* reported once more with done = true and the trial is TERMINATED.        *)
(***************************************************************************)
NumIterations(t) == IF t.kind = "sklearn" THEN 1 ELSE t.num_boost_round

RowIds(ds) == {ds[k].features : k \in 1..Len(ds)}

(* cross_validate(..., cv=cv): one entry per fold in each metric. *)
CrossValidate(cv) ==
    [fit_time |-> [k \in 1..cv |-> k],
     score_time |-> [k \in 1..cv |-> k],
     test_score |-> [k \in 1..cv |-> k]]

(* The names of the datasets scored besides "train". *)
ScoredDatasets(t) == (DOMAIN t.datasets) \ {"train"}

Metrics(t, it) ==
    IF t.kind = "sklearn"
    THEN [cv |-> CrossValidate(t.cv), scored |-> ScoredDatasets(t)]
    ELSE [train_rmse |-> NumIterations(t) - it]

ShouldCheckpoint(t, it) == TRUE

ReportedResult(t, it) ==
    [training_iteration |-> it,
     done |-> FALSE,
     should_checkpoint |-> ShouldCheckpoint(t, it),
     metrics |-> Metrics(t, it)]

(* checkpoint_00000k is written after iteration k + 1. *)
CheckpointNumber(it) == it - 1

HasWandb(t) == t.callbacks # <<>>

SaveCheckpoints(t) == HasWandb(t) /\ t.callbacks[1].save_checkpoints

(* WandbLoggerCallback: what one result sends to the logging process. *)
OnTrialResult(t, r) ==
    IF HasWandb(t) THEN <<[type |-> "RESULT", content |-> r.training_iteration]>>
    ELSE <<>>

OnTrialSave(t, ckpt) ==
    IF SaveCheckpoints(t) /\ Has(ckpt)
    THEN <<[type |-> "CHECKPOINT", content |-> Get(ckpt).number]>>
    ELSE <<>>

OnTrialEnd(t) ==
    IF HasWandb(t) THEN <<[type |-> "END", content |-> 0]>> ELSE <<>>

(* The worker actors the trainer asks for: none for a SklearnTrainer. *)
WorkersOf(t) ==
    IF "num_workers" \in DOMAIN t.scaling_config
    THEN t.scaling_config.num_workers ELSE 0

(* ray.data.from_pandas(df) of one frame: a dataset of one block. *)
from_pandas(df) == <<df>>

(* Dataset.repartition(k): the rows, in order, in k blocks of even size. *)
Repartition(blocks, k) ==
    LET RECURSIVE Flat(_)
        Flat(bs) == IF bs = <<>> THEN <<>> ELSE Head(bs) \o Flat(Tail(bs))
        rows == Flat(blocks)
        n == Len(rows)
    IN  [j \in 1..k |-> SubSeq(rows, ((j - 1) * n) \div k + 1, (j * n) \div k)]

(* A dataset with fewer blocks than workers is repartitioned to one block   *)
(* per worker.                                                             *)
TrainBlocks(t) ==
    LET blocks == from_pandas(t.datasets.train)
    IN  IF Len(blocks) < WorkersOf(t)
        THEN Repartition(blocks, WorkersOf(t)) ELSE blocks

(* What the running trial requests: the trainer's resources, and one CPU   *)
(* for the trainable and for each worker of a distributed trainer.         *)
Requested(t) ==
    IF "trainer_resources" \in DOMAIN t.scaling_config
    THEN LET r == t.scaling_config.trainer_resources
         IN  [CPU |-> r.CPU, GPU |-> IF "GPU" \in DOMAIN r THEN r.GPU ELSE 0]
    ELSE [CPU |-> 1 + WorkersOf(t), GPU |-> 0]

(* Mutant: the finished trial keeps a CPU requested. *)
Released_keeps_cpu == [CPU |-> 1, GPU |-> 0]

Released == [CPU |-> 0, GPU |-> 0]

fit_start ==
    /\ pc = "fit"
    /\ trial' = Some([status |-> "RUNNING",
                      results |-> <<>>,
                      checkpoint |-> Nothing,
                      checkpoints |-> <<>>,
                      fitted_on |-> RowIds(Get(trainer).datasets.train),
                      number |-> Len(trial) + 1,
                      resources |-> Requested(Get(trainer)),
                      blocks |-> LET bs == TrainBlocks(Get(trainer))
                                 IN  [j \in 1..Len(bs) |-> RowIds(bs[j])],
                      workers |-> <<>>,
                      training |-> "waiting",
                      produced |-> 0])
    /\ wandb' = IF HasWandb(Get(trainer))
                THEN [state |-> "running", logged |-> <<>>, artifacts |-> <<>>]
                ELSE wandb
    /\ pc' = "fit_loop"
    /\ UNCHANGED <<cuMLRandomForestClassifier, num_rows, args, error,
                   prepared, train_dataset, trainer, result, batch_predictor,
                   predicted_labels, wandb_queue, notebook, samples, column,
                   frames, declared, changed, stale, running>>

(* The trainable creates its worker actors. *)
create_actors ==
    /\ pc = "fit_loop"
    /\ Get(trial).training = "waiting"
    /\ Len(Get(trial).workers) < WorkersOf(Get(trainer))
    /\ trial' = Some([Get(trial) EXCEPT !.workers =
            [k \in 1..WorkersOf(Get(trainer)) |->
                [ready |-> FALSE, rank |-> -1, block |-> k]]])
    /\ UNCHANGED <<pc, cuMLRandomForestClassifier, num_rows, args, error,
                   prepared, train_dataset, trainer, result, batch_predictor,
                   predicted_labels, wandb_queue, wandb, notebook, samples,
                   column, frames, declared, changed, stale, running>>

(* One actor becomes ready for training. *)
actor_ready ==
    /\ pc = "fit_loop"
    /\ Get(trial).training = "waiting"
    /\ \E k \in 1..Len(Get(trial).workers) :
        /\ ~Get(trial).workers[k].ready
        /\ trial' = Some([Get(trial) EXCEPT !.workers[k].ready = TRUE])
    /\ UNCHANGED <<pc, cuMLRandomForestClassifier, num_rows, args, error,
                   prepared, train_dataset, trainer, result, batch_predictor,
                   predicted_labels, wandb_queue, wandb, notebook, samples,
                   column, frames, declared, changed, stale, running>>

(* Mutant: training does not wait for the actors. *)
AllActorsReady_no_wait(tr, t) == TRUE

AllActorsReady(tr, t) ==
    /\ Len(tr.workers) = WorkersOf(t)
    /\ \A k \in 1..Len(tr.workers) : tr.workers[k].ready

(* The rank the k-th actor is given when training starts. *)
RankOf(k) == k - 1

(* Training starts when every actor asked for is ready; the actors are     *)
(* given their ranks.                                                      *)
training_start ==
    /\ pc = "fit_loop"
    /\ Get(trial).training = "waiting"
    /\ AllActorsReady(Get(trial), Get(trainer))
    /\ trial' = Some([Get(trial) EXCEPT
            !.training = "started",
            !.workers = [k \in 1..Len(@) |-> [@[k] EXCEPT !.rank = RankOf(k)]]])
    /\ UNCHANGED <<pc, cuMLRandomForestClassifier, num_rows, args, error,
                   prepared, train_dataset, trainer, result, batch_predictor,
                   predicted_labels, wandb_queue, wandb, notebook, samples,
                   column, frames, declared, changed, stale, running>>

(* One training iteration is done and its result is ready for the driver. *)
training_step ==
    /\ pc = "fit_loop"
    /\ Get(trial).training = "started"
    /\ Get(trial).produced < NumIterations(Get(trainer))
    /\ trial' = Some([Get(trial) EXCEPT !.produced = @ + 1])
    /\ UNCHANGED <<pc, cuMLRandomForestClassifier, num_rows, args, error,
                   prepared, train_dataset, trainer, result, batch_predictor,
                   predicted_labels, wandb_queue, wandb, notebook, samples,
                   column, frames, declared, changed, stale, running>>

(* Training is reported finished after the last iteration. *)
training_finish ==
    /\ pc = "fit_loop"
    /\ Get(trial).training = "started"
    /\ Get(trial).produced = NumIterations(Get(trainer))
    /\ trial' = Some([Get(trial) EXCEPT !.training = "finished"])
    /\ UNCHANGED <<pc, cuMLRandomForestClassifier, num_rows, args, error,
                   prepared, train_dataset, trainer, result, batch_predictor,
                   predicted_labels, wandb_queue, wandb, notebook, samples,
                   column, frames, declared, changed, stale, running>>

fit_process_result ==
    /\ pc = "fit_loop"
    /\ Len(Get(trial).results) < NumIterations(Get(trainer))
    /\ Len(Get(trial).results) < Get(trial).produced
    /\ LET t == Get(trainer)
           tr == Get(trial)
           it == Len(tr.results) + 1
           r == ReportedResult(t, it)
           ckpt == IF r.should_checkpoint
                   THEN Some([number |-> CheckpointNumber(it),
                              fitted_on |-> tr.fitted_on])
                   ELSE tr.checkpoint
       IN  /\ trial' = Some([tr EXCEPT
                    !.results = Append(@, r),
                    !.checkpoint = ckpt,
                    !.checkpoints = IF r.should_checkpoint
                                    THEN Append(@, Get(ckpt).number) ELSE @])
           /\ wandb_queue' = wandb_queue \o OnTrialResult(t, r)
                  \o (IF r.should_checkpoint THEN OnTrialSave(t, ckpt) ELSE <<>>)
    /\ UNCHANGED <<pc, cuMLRandomForestClassifier, num_rows, args, error,
                   prepared, train_dataset, trainer, result, batch_predictor,
                   predicted_labels, wandb, notebook, samples, column, frames,
                   declared, changed, stale, running>>

fit_complete ==
    /\ pc = "fit_loop"
    /\ Len(Get(trial).results) = NumIterations(Get(trainer))
    /\ Get(trial).training = "finished"
    /\ LET t == Get(trainer)
           tr == Get(trial)
           last == tr.results[Len(tr.results)]
       IN  /\ trial' = Some([tr EXCEPT
                    !.results = Append(@, [last EXCEPT !.done = TRUE]),
                    !.status = "TERMINATED",
                    !.resources = Released])
           /\ wandb_queue' = wandb_queue \o OnTrialSave(t, tr.checkpoint)
                                         \o OnTrialEnd(t)
           /\ pc' = IF HasWandb(t) THEN "fit_join" ELSE "fit_done"
    /\ UNCHANGED <<cuMLRandomForestClassifier, num_rows, args, error,
                   prepared, train_dataset, trainer, result, batch_predictor,
                   predicted_labels, wandb, notebook, samples, column, frames,
                   declared, changed, stale, running>>

(* Result(metrics, checkpoint) of the finished trial. *)
FitResult(tr) ==
    [metrics |-> tr.results[Len(tr.results)].metrics,
     checkpoint |-> tr.checkpoint]

(***************************************************************************)
(* sklearn_example.ipynb                                                   *)
(***************************************************************************)
NumCpusArgs == {1, 2}

(* Mutant: the guard tests for cuML being present instead of absent. *)
GpuUnavailable_inverted(use_gpu, cuml) == use_gpu /\ cuml # None

(* Mutant: the guard does not look at use_gpu. *)
GpuUnavailable_ignores_flag(use_gpu, cuml) == cuml = None

(* if use_gpu and not cuMLRandomForestClassifier *)
GpuUnavailable(use_gpu, cuml) == use_gpu /\ cuml = None

train_sklearn_enter ==
    /\ notebook = "sklearn_example"
    /\ pc = "ready"
    /\ \E num_cpus \in NumCpusArgs, use_gpu \in BOOLEAN :
        /\ args' = Some([num_cpus |-> num_cpus, use_gpu |-> use_gpu])
        /\ IF GpuUnavailable(use_gpu, cuMLRandomForestClassifier)
           THEN /\ error' = "RuntimeError"
                /\ pc' = "raised"
           ELSE /\ error' = error
                /\ pc' = "train_prepare"
    /\ UNCHANGED <<cuMLRandomForestClassifier, num_rows, prepared,
                   train_dataset, trainer, trial, result, batch_predictor,
                   predicted_labels, wandb_queue, wandb, notebook, samples,
                   column, frames, declared, changed, stale, running>>

train_sklearn_prepare ==
    /\ pc = "train_prepare"
    /\ \E perm \in Shuffles(num_rows) :
        prepared' = Some(prepare_data(num_rows, perm))
    /\ pc' = "train_build"
    /\ UNCHANGED <<cuMLRandomForestClassifier, num_rows, args, error,
                   train_dataset, trainer, trial, result, batch_predictor,
                   predicted_labels, wandb_queue, wandb, notebook, samples,
                   column, frames, declared, changed, stale, running>>

CvFolds == 5

(* Mutant: num_cpus is used with a GPU too. *)
TrainerResources_uses_num_cpus(num_cpus, use_gpu) ==
    IF use_gpu THEN [CPU |-> num_cpus, GPU |-> 1] ELSE [CPU |-> num_cpus]

TrainerResources(num_cpus, use_gpu) ==
    IF use_gpu THEN [CPU |-> 1, GPU |-> 1] ELSE [CPU |-> num_cpus]

Estimator(use_gpu) ==
    IF use_gpu THEN "cuMLRandomForestClassifier" ELSE "RandomForestClassifier"

(* Mutant: the trainer is built with three folds. *)
SklearnTrainer_three_folds(a, data) ==
    [kind |-> "sklearn",
     estimator |-> Estimator(a.use_gpu),
     label_column |-> "target",
     datasets |-> [train |-> data.train_dataset, valid |-> data.valid_dataset],
     preprocessor |-> <<[encoder |-> "OrdinalEncoder",
                         columns |-> {"categorical_column"}],
                        [encoder |-> "StandardScaler",
                         columns |-> {"mean radius", "mean texture"}]>>,
     cv |-> CvFolds - 2,
     scaling_config |->
        [trainer_resources |-> TrainerResources(a.num_cpus, a.use_gpu)],
     callbacks |-> <<>>]

SklearnTrainer(a, data) ==
    [kind |-> "sklearn",
     estimator |-> Estimator(a.use_gpu),
     label_column |-> "target",
     datasets |-> [train |-> data.train_dataset, valid |-> data.valid_dataset],
     preprocessor |-> <<[encoder |-> "OrdinalEncoder",
                         columns |-> {"categorical_column"}],
                        [encoder |-> "StandardScaler",
                         columns |-> {"mean radius", "mean texture"}]>>,
     cv |-> CvFolds,
     scaling_config |->
        [trainer_resources |-> TrainerResources(a.num_cpus, a.use_gpu)],
     callbacks |-> <<>>]

train_sklearn_build ==
    /\ pc = "train_build"
    /\ IF Get(args).use_gpu /\ cuMLRandomForestClassifier = None
       THEN \* calling None: 'NoneType' object is not callable
            /\ error' = "TypeError"
            /\ pc' = "raised"
            /\ trainer' = trainer
       ELSE /\ trainer' = Some(SklearnTrainer(Get(args), Get(prepared)))
            /\ pc' = "fit"
            /\ error' = error
    /\ UNCHANGED <<cuMLRandomForestClassifier, num_rows, args, prepared,
                   train_dataset, trial, result, batch_predictor,
                   predicted_labels, wandb_queue, wandb, notebook, samples,
                   column, frames, declared, changed, stale, running>>

(* return result: the locals of train_sklearn go out of scope. *)
train_sklearn_return ==
    /\ notebook = "sklearn_example"
    /\ pc = "fit_done"
    /\ result' = Some(FitResult(Get(trial)))
    /\ prepared' = Nothing
    /\ trainer' = Nothing
    /\ args' = Nothing
    /\ pc' = "trained"
    /\ UNCHANGED <<cuMLRandomForestClassifier, num_rows, error, train_dataset,
                   trial, batch_predictor, predicted_labels, wandb_queue,
                   wandb, notebook, samples, column, frames, declared,
                   changed, stale, running>>

(* Mutant: the predictor is built from an untrained checkpoint. *)
from_checkpoint_untrained(checkpoint, use_gpu) ==
    [checkpoint |-> [number |-> 0, fitted_on |-> {}],
     num_gpus_per_worker |-> IF use_gpu THEN 1 ELSE 0]

(* BatchPredictor.from_checkpoint(checkpoint, SklearnPredictor) *)
from_checkpoint(checkpoint, use_gpu) ==
    [checkpoint |-> Get(checkpoint),
     num_gpus_per_worker |-> IF use_gpu THEN 1 ELSE 0]

predict_sklearn_enter ==
    /\ pc = "trained"
    /\ \E use_gpu \in BOOLEAN, perm \in Shuffles(num_rows) :
        /\ args' = Some([use_gpu |-> use_gpu])
        /\ prepared' = Some(prepare_data(num_rows, perm))
        /\ IF Has(Get(result).checkpoint)
           THEN /\ batch_predictor' =
                        Some(from_checkpoint(Get(result).checkpoint, use_gpu))
                /\ pc' = "predict"
                /\ error' = error
           ELSE /\ batch_predictor' = batch_predictor
                /\ pc' = "raised"
                /\ error' = "NoCheckpoint"
    /\ UNCHANGED <<cuMLRandomForestClassifier, num_rows, train_dataset,
                   trainer, trial, result, predicted_labels, wandb_queue,
                   wandb, notebook, samples, column, frames, declared,
                   changed, stale, running>>

(* Raw predictions, in tenths: 5 stands for 0.5. *)
RawPredictions == {4, 5, 6}

Half == 5

(* Mutant: the comparison is not strict. *)
Threshold_not_strict(x) == IF x >= Half THEN 1 ELSE 0

(* Mutant: the comparison is turned round. *)
Threshold_inverted(x) == IF x < Half THEN 1 ELSE 0

(* lambda df: (df > 0.5).astype(int) *)
Threshold(x) == IF x > Half THEN 1 ELSE 0

map_batches(predictions) ==
    [k \in 1..Len(predictions) |-> Threshold(predictions[k])]

(* float("inf") *)
Infinity == [finite |-> FALSE, n |-> 0]

(* Dataset.to_pandas(limit): refuses a dataset with more than limit rows. *)
to_pandas(ds, limit) ==
    IF limit.finite /\ Len(ds) > limit.n THEN Nothing ELSE Some(ds)

predict_sklearn_predict ==
    /\ pc = "predict"
    /\ \E predictions \in [1..Len(Get(prepared).test_dataset) -> RawPredictions] :
        LET frame == to_pandas(map_batches(predictions), Infinity)
        IN  IF Has(frame)
            THEN /\ predicted_labels' = Some([predictions |-> predictions,
                                              labels |-> Get(frame)])
                 /\ pc' = "predicted"
                 /\ error' = error
            ELSE /\ predicted_labels' = predicted_labels
                 /\ pc' = "raised"
                 /\ error' = "ValueError"
    /\ UNCHANGED <<cuMLRandomForestClassifier, num_rows, args, prepared,
                   train_dataset, trainer, trial, result, batch_predictor,
                   wandb_queue, wandb, notebook, samples, column, frames,
                   declared, changed, stale, running>>

WandbOff == [state |-> "off", logged |-> <<>>, artifacts |-> <<>>]

InitSklearn ==
    /\ pc = "ready"
    /\ cuMLRandomForestClassifier \in {None, "cuml"}
    /\ num_rows \in 2..MaxRows
    /\ args = Nothing
    /\ error = "none"
    /\ prepared = Nothing
    /\ train_dataset = <<>>
    /\ trainer = Nothing
    /\ trial = Nothing
    /\ result = Nothing
    /\ batch_predictor = Nothing
    /\ predicted_labels = Nothing
    /\ wandb_queue = <<>>
    /\ wandb = WandbOff
    /\ notebook = "sklearn_example"
    /\ samples = Nothing
    /\ column = Nothing
    /\ frames = <<>>
    /\ declared = 0
    /\ changed = {}
    /\ stale = {}
    /\ running = {}

NextSklearn ==
    \/ train_sklearn_enter
    \/ train_sklearn_prepare
    \/ train_sklearn_build
    \/ fit_start
    \/ training_start
    \/ training_step
    \/ training_finish
    \/ fit_process_result
    \/ fit_complete
    \/ train_sklearn_return
    \/ predict_sklearn_enter
    \/ predict_sklearn_predict

SpecSklearn == InitSklearn /\ [][NextSklearn]_vars

(***************************************************************************)
(* upload_to_wandb.ipynb                                                   *)
(***************************************************************************)
(* Mutant: the label column is shifted by one row. *)
get_train_dataset_shifted(n) ==
    LET data_raw == load_breast_cancer(n)
    IN  [i \in 1..n |-> [features |-> data_raw.data[i],
                         target |-> data_raw.target[(i % n) + 1]]]

(* df = data_raw["data"]; df["target"] = data_raw["target"] *)
get_train_dataset(n) ==
    LET data_raw == load_breast_cancer(n)
    IN  [i \in 1..n |-> [features |-> data_raw.data[i],
                         target |-> data_raw.target[i]]]

load_train_dataset ==
    /\ notebook = "upload_to_wandb"
    /\ pc = "ready"
    /\ train_dataset' = get_train_dataset(num_rows)
    /\ pc' = "have_dataset"
    /\ UNCHANGED <<cuMLRandomForestClassifier, num_rows, args, error,
                   prepared, trainer, trial, result, batch_predictor,
                   predicted_labels, wandb_queue, wandb, notebook, samples,
                   column, frames, declared, changed, stale, running>>

NumWorkers == 2

NumBoostRound == 10

(* Mutant: the callback is built without save_checkpoints. *)
WandbLoggerCallback_no_checkpoints(project) ==
    [project |-> project, save_checkpoints |-> FALSE]

WandbLoggerCallback(project) == [project |-> project, save_checkpoints |-> TRUE]

(* Mutant: the trainer is built with one boosting round less. *)
XGBoostTrainer_one_round_less(ds, wandb_project) ==
    [kind |-> "xgboost",
     scaling_config |-> [num_workers |-> NumWorkers],
     params |-> [tree_method |-> "auto"],
     label_column |-> "target",
     datasets |-> [train |-> ds],
     num_boost_round |-> NumBoostRound - 1,
     callbacks |-> <<WandbLoggerCallback(wandb_project)>>]

(* Mutant: the trainer is built with one worker less. *)
XGBoostTrainer_one_worker_less(ds, wandb_project) ==
    [kind |-> "xgboost",
     scaling_config |-> [num_workers |-> NumWorkers - 1],
     params |-> [tree_method |-> "auto"],
     label_column |-> "target",
     datasets |-> [train |-> ds],
     num_boost_round |-> NumBoostRound,
     callbacks |-> <<WandbLoggerCallback(wandb_project)>>]

XGBoostTrainer(ds, wandb_project) ==
    [kind |-> "xgboost",
     scaling_config |-> [num_workers |-> NumWorkers],
     params |-> [tree_method |-> "auto"],
     label_column |-> "target",
     datasets |-> [train |-> ds],
     num_boost_round |-> NumBoostRound,
     callbacks |-> <<WandbLoggerCallback(wandb_project)>>]

train_model_build ==
    /\ pc = "have_dataset"
    /\ trainer' = Some(XGBoostTrainer(train_dataset, "ray_air_example"))
    /\ pc' = "fit"
    /\ UNCHANGED <<cuMLRandomForestClassifier, num_rows, args, error,
                   prepared, train_dataset, trial, result, batch_predictor,
                   predicted_labels, wandb_queue, wandb, notebook, samples,
                   column, frames, declared, changed, stale, running>>

(* The logging process takes the next item off its queue: a result is      *)
(* logged, a checkpoint directory is added to an artifact, END starts      *)
(* wandb.finish().                                                         *)
Handle(w, item) ==
    CASE item.type = "RESULT" -> [w EXCEPT !.logged = Append(@, item.content)]
      [] item.type = "CHECKPOINT" ->
            [w EXCEPT !.artifacts = Append(@, item.content)]
      [] item.type = "END" -> [w EXCEPT !.state = "finishing"]

(* Mutant: the process takes the newest item first. *)
NextItem_newest(q) == q[Len(q)]

NextItem(q) == Head(q)

wandb_handle ==
    /\ wandb.state = "running"
    /\ wandb_queue # <<>>
    /\ wandb' = Handle(wandb, NextItem(wandb_queue))
    /\ wandb_queue' = Tail(wandb_queue)
    /\ UNCHANGED <<pc, cuMLRandomForestClassifier, num_rows, args, error,
                   prepared, train_dataset, trainer, trial, result,
                   batch_predictor, predicted_labels, notebook, samples,
                   column, frames, declared, changed, stale, running>>

(* wandb.finish() completes: the run is synced. *)
wandb_finish ==
    /\ wandb.state = "finishing"
    /\ wandb' = [wandb EXCEPT !.state = "synced"]
    /\ UNCHANGED <<pc, cuMLRandomForestClassifier, num_rows, args, error,
                   prepared, train_dataset, trainer, trial, result,
                   batch_predictor, predicted_labels, wandb_queue, notebook,
                   samples, column, frames, declared, changed, stale,
                   running>>

(* The driver's wait for the logging process when the trial has ended: it  *)
(* ends when the process has finished or when the wait has timed out.      *)
JoinReturns(w) == TRUE

fit_join ==
    /\ pc = "fit_join"
    /\ JoinReturns(wandb)
    /\ pc' = "fit_done"
    /\ UNCHANGED <<cuMLRandomForestClassifier, num_rows, args, error,
                   prepared, train_dataset, trainer, trial, result,
                   batch_predictor, predicted_labels, wandb_queue, wandb,
                   notebook, samples, column, frames, declared, changed,
                   stale, running>>

train_model_return ==
    /\ notebook = "upload_to_wandb"
    /\ pc = "fit_done"
    /\ result' = Some(FitResult(Get(trial)))
    /\ trainer' = Nothing
    /\ pc' = "returned"
    /\ UNCHANGED <<cuMLRandomForestClassifier, num_rows, args, error,
                   prepared, train_dataset, trial, batch_predictor,
                   predicted_labels, wandb_queue, wandb, notebook, samples,
                   column, frames, declared, changed, stale, running>>

InitWandb ==
    /\ pc = "ready"
    /\ cuMLRandomForestClassifier = None
    /\ num_rows \in 1..MaxRows
    /\ args = Nothing
    /\ error = "none"
    /\ prepared = Nothing
    /\ train_dataset = <<>>
    /\ trainer = Nothing
    /\ trial = Nothing
    /\ result = Nothing
    /\ batch_predictor = Nothing
    /\ predicted_labels = Nothing
    /\ wandb_queue = <<>>
    /\ wandb = WandbOff
    /\ notebook = "upload_to_wandb"
    /\ samples = Nothing
    /\ column = Nothing
    /\ frames = <<>>
    /\ declared = 0
    /\ changed = {}
    /\ stale = {}
    /\ running = {}

NextWandb ==
    \/ load_train_dataset
    \/ train_model_build
    \/ fit_start
    \/ create_actors
    \/ actor_ready
    \/ training_start
    \/ training_step
    \/ training_finish
    \/ fit_process_result
    \/ fit_complete
    \/ fit_join
    \/ wandb_handle
    \/ wandb_finish
    \/ train_model_return

SpecWandb == InitWandb /\ [][NextWandb]_vars

(***************************************************************************)
(* Either notebook: one of the two is opened and its cells are run.        *)
(***************************************************************************)
InitNotebooks == InitSklearn \/ InitWandb

NextNotebooks ==
    \/ train_sklearn_enter
    \/ train_sklearn_prepare
    \/ train_sklearn_build
    \/ train_sklearn_return
    \/ predict_sklearn_enter
    \/ predict_sklearn_predict
    \/ load_train_dataset
    \/ train_model_build
    \/ train_model_return
    \/ fit_start
    \/ create_actors
    \/ actor_ready
    \/ training_start
    \/ training_step
    \/ training_finish
    \/ fit_process_result
    \/ fit_complete
    \/ fit_join
    \/ wandb_handle
    \/ wandb_finish

SpecNotebooks == InitNotebooks /\ [][NextNotebooks]_vars

(***************************************************************************)
(* Properties of sklearn_example.ipynb, checked under SpecSklearn.         *)
(***************************************************************************)
InTrainSklearn == Has(args) /\ "num_cpus" \in DOMAIN Get(args)

\* C1: train_sklearn raises RuntimeError when use_gpu is true and
\* cuMLRandomForestClassifier is None, and it raises before prepare_data is
\* called, before a trainer is constructed and before fit is started: on
\* this error no dataset, trainer, trial or result exists.
C1_GuardRaisesBeforeTraining ==
    /\ (InTrainSklearn /\ Get(args).use_gpu /\ cuMLRandomForestClassifier = None)
          => (pc = "raised" /\ error = "RuntimeError")
    /\ error = "RuntimeError"
          => /\ prepared = Nothing
             /\ trainer = Nothing
             /\ trial = Nothing
             /\ result = Nothing

C1_Witness == pc = "raised" /\ error = "RuntimeError" /\ Get(args).use_gpu

Occurrences(ds, row) == Cardinality({k \in 1..Len(ds) : ds[k] = row})

\* C4: the train and validation datasets prepare_data returns partition the
\* loaded rows: every loaded row is in exactly one of them, once.
C4_TrainValidPartition ==
    Has(prepared) =>
        LET p == Get(prepared)
            df == dataset_df(num_rows)
        IN  /\ Len(p.train_dataset) + Len(p.valid_dataset) = num_rows
            /\ \A i \in 1..num_rows :
                  Occurrences(p.train_dataset, df[i])
                    + Occurrences(p.valid_dataset, df[i]) = 1

C4_Witness ==
    /\ Has(prepared)
    /\ Len(Get(prepared).train_dataset) >= 2
    /\ Len(Get(prepared).valid_dataset) >= 2

HasColumn(ds, col) == \A k \in 1..Len(ds) : col \in DOMAIN ds[k]

\* C5: in every result of prepare_data the test dataset is the validation
\* dataset, row for row and in the same order, without the "target" column
\* and with every other column unchanged; the train and validation datasets
\* keep "target", which is the trainer's label_column.
C5_TestIsValidWithoutTarget ==
    /\ Has(prepared) =>
        LET p == Get(prepared)
        IN  /\ Len(p.test_dataset) = Len(p.valid_dataset)
            /\ \A k \in 1..Len(p.valid_dataset) :
                  /\ DOMAIN p.test_dataset[k]
                        = (DOMAIN p.valid_dataset[k]) \ {"target"}
                  /\ \A c \in DOMAIN p.test_dataset[k] :
                        p.test_dataset[k][c] = p.valid_dataset[k][c]
            /\ HasColumn(p.train_dataset, "target")
            /\ HasColumn(p.valid_dataset, "target")
    /\ Has(trainer) =>
        /\ Get(trainer).label_column = "target"
        /\ HasColumn(Get(trainer).datasets.train, Get(trainer).label_column)
        /\ HasColumn(Get(trainer).datasets.valid, Get(trainer).label_column)

C5_Witness ==
    /\ Has(prepared)
    /\ Has(trainer)
    /\ Len(Get(prepared).test_dataset) >= 2

\* C6: predict_sklearn builds its batch predictor from result.checkpoint of
\* the Result train_sklearn returned; whenever train_sklearn returns, that
\* result carries a checkpoint of the fitted model, the trial having
\* reported should_checkpoint before it was done, so predict_sklearn never
\* meets a missing checkpoint.
C6_PredictorFromTrainedCheckpoint ==
    /\ Has(result) =>
        /\ Has(Get(result).checkpoint)
        /\ Get(Get(result).checkpoint).fitted_on = Get(trial).fitted_on
        /\ \E k \in 1..Len(Get(trial).results) :
              /\ Get(trial).results[k].should_checkpoint
              /\ ~Get(trial).results[k].done
    /\ Has(batch_predictor) =>
        Get(batch_predictor).checkpoint = Get(Get(result).checkpoint)
    /\ error # "NoCheckpoint"

C6_Witness == pc = "predict" /\ Has(batch_predictor) /\ Has(result)

\* C7: predict_sklearn gives exactly one label per row of the test dataset,
\* to_pandas dropping none; a label is 1 when the raw prediction is strictly
\* greater than 0.5 and 0 otherwise, so 0.5 gives 0 and every label is 0 or 1.
C7_OneThresholdedLabelPerRow ==
    /\ Has(predicted_labels) =>
        LET raw == Get(predicted_labels).predictions
            labels == Get(predicted_labels).labels
        IN  /\ Len(labels) = Len(Get(prepared).test_dataset)
            /\ Len(raw) = Len(labels)
            /\ \A k \in 1..Len(labels) :
                  /\ labels[k] \in {0, 1}
                  /\ (labels[k] = 1) <=> (raw[k] > 5)
    /\ error # "ValueError"

C7_Witness ==
    /\ Has(predicted_labels)
    /\ \E j, k \in 1..Len(Get(predicted_labels).labels) :
          /\ Get(predicted_labels).predictions[j] = 5
          /\ Get(predicted_labels).labels[j] = 0
          /\ Get(predicted_labels).labels[k] = 1

\* C8: a SklearnTrainer run with cv=5 reports cv.fit_time, cv.score_time and
\* cv.test_score with exactly 5 entries each and a score for the "valid"
\* dataset, and it finishes in one training iteration: the result with
\* done = true has training_iteration = 1.
C8_FiveFoldMetricsOneIteration ==
    Has(trial) =>
        /\ \A k \in 1..Len(Get(trial).results) :
            LET r == Get(trial).results[k]
            IN  /\ Len(r.metrics.cv.fit_time) = 5
                /\ Len(r.metrics.cv.score_time) = 5
                /\ Len(r.metrics.cv.test_score) = 5
                /\ "valid" \in r.metrics.scored
                /\ r.training_iteration = 1
        /\ (Get(trial).status = "TERMINATED") =>
              /\ Len(Get(trial).results) = 2
              /\ Get(trial).results[2].done
        /\ Has(result) =>
              /\ Len(Get(result).metrics.cv.test_score) = 5
              /\ "valid" \in Get(result).metrics.scored

C8_Witness ==
    /\ Has(result)
    /\ Has(trial)
    /\ Get(trial).status = "TERMINATED"
    /\ Get(trial).results[Len(Get(trial).results)].done

(***************************************************************************)
(* Properties of upload_to_wandb.ipynb, checked under SpecWandb.           *)
(***************************************************************************)
Contents(q, type) ==
    LET OfType(item) == item.type = type
        sel == SelectSeq(q, OfType)
    IN  [k \in 1..Len(sel) |-> sel[k].content]

Range(f) == {f[k] : k \in DOMAIN f}

(* The iterations of the results the trainer reported, in order. *)
ReportedIterations ==
    LET Reported(r) == ~r.done
        sel == SelectSeq(Get(trial).results, Reported)
    IN  [k \in 1..Len(sel) |-> sel[k].training_iteration]

EndSent ==
    \/ wandb.state \in {"finishing", "synced"}
    \/ \E k \in 1..Len(wandb_queue) : wandb_queue[k].type = "END"

Returned == pc = "returned" /\ Has(result)

\* C2 (as stated): when train_model returns, every reported result has been
\* logged, every checkpoint written has been uploaded, and the W&B process
\* has finished and synced.
C2_UploadsCompleteAtReturn ==
    Returned =>
        /\ wandb.state = "synced"
        /\ wandb.logged = ReportedIterations
        /\ Range(Get(trial).checkpoints) \subseteq Range(wandb.artifacts)

\* C2 (amended): when train_model returns, every result the trainer reported
\* and every checkpoint it wrote has been handed to the W&B process, in
\* order and followed by the end of the run; the process has logged every
\* result and uploaded every checkpoint when it has synced, which can be
\* after train_model has returned.
C2_UploadsHandedOverAtReturn ==
    /\ Returned =>
        /\ wandb.logged \o Contents(wandb_queue, "RESULT") = ReportedIterations
        /\ Range(Get(trial).checkpoints) \subseteq
              Range(wandb.artifacts) \cup Range(Contents(wandb_queue, "CHECKPOINT"))
        /\ Get(trial).checkpoints # <<>>
        /\ EndSent
    /\ wandb.state = "synced" =>
        /\ wandb_queue = <<>>
        /\ wandb.logged = ReportedIterations
        /\ Range(Get(trial).checkpoints) \subseteq Range(wandb.artifacts)
        /\ Get(trial).checkpoints # <<>>

C2_Witness ==
    /\ Returned
    /\ wandb.state = "synced"
    /\ Len(wandb.logged) = 10
    /\ Range(wandb.artifacts) = 0..9

\* C3: with num_boost_round=10 the trial's results carry training_iteration
\* values that go up from 1 to exactly 10; done is false on every result
\* before the last; the one result with done = true has training_iteration
\* = 10; and train_model returns only after that result.
C3_TenIterationsThenDone ==
    /\ Has(trial) =>
        LET rs == Get(trial).results
        IN  /\ \A k \in 1..Len(rs) :
                  /\ rs[k].training_iteration \in 1..10
                  /\ k = 1 => rs[k].training_iteration = 1
                  /\ k > 1 => rs[k].training_iteration - rs[k - 1].training_iteration
                                 \in {0, 1}
                  /\ rs[k].done => (k = Len(rs) /\ rs[k].training_iteration = 10)
                  /\ (k > 1 /\ rs[k].training_iteration = rs[k - 1].training_iteration)
                        => rs[k].done
    /\ pc \in {"fit_join", "fit_done", "returned"} =>
        LET rs == Get(trial).results
        IN  /\ rs[Len(rs)].done
            /\ {rs[k].training_iteration : k \in 1..Len(rs)} = 1..10
    /\ Has(result) =>
        /\ pc = "returned"
        /\ Get(trial).status = "TERMINATED"
        /\ Get(trial).results[Len(Get(trial).results)].done

C3_Witness ==
    /\ Returned
    /\ Get(trial).results[Len(Get(trial).results)].done
    /\ Get(trial).results[Len(Get(trial).results)].training_iteration = 10

\* C9: get_train_dataset returns one dataset in which every source row
\* appears exactly once, with its features and with a "target" column that
\* holds that row's label, and train_model trains on all of it, with no row
\* held out.
C9_WholeDatasetWithLabels ==
    /\ pc # "ready" =>
        /\ Len(train_dataset) = num_rows
        /\ \A i \in 1..num_rows :
              Occurrences(train_dataset,
                          [features |-> FeatureOf(i), target |-> TargetOf(i)]) = 1
    /\ Has(trainer) => Get(trainer).datasets = [train |-> train_dataset]
    /\ Has(trial) =>
        Get(trial).fitted_on = {FeatureOf(i) : i \in 1..num_rows}

C9_Witness ==
    /\ Returned
    /\ num_rows >= 3
    /\ Cardinality(Get(trial).fitted_on) = num_rows

\* C10: the checkpoints of a run are numbered without gaps from 0 to
\* num_boost_round - 1, and the artifact uploads follow that order: a
\* checkpoint with a lower number is never uploaded after one with a higher
\* number.
C10_UploadsFollowCheckpointOrder ==
    /\ Has(trial) =>
        /\ \A k \in 1..Len(Get(trial).checkpoints) :
              Get(trial).checkpoints[k] = k - 1
        /\ Get(trial).status = "TERMINATED" =>
              Range(Get(trial).checkpoints) = 0..(NumBoostRound - 1)
    /\ \A j, k \in 1..Len(wandb.artifacts) :
          j < k => wandb.artifacts[j] <= wandb.artifacts[k]
    /\ wandb.state = "synced" => Range(wandb.artifacts) = 0..(NumBoostRound - 1)

C10_Witness ==
    /\ wandb.state = "synced"
    /\ Len(wandb.artifacts) >= 10
    /\ wandb.artifacts[1] = 0
    /\ wandb.artifacts[10] = 9

Uploads(n) == Cardinality({k \in 1..Len(wandb.artifacts) : wandb.artifacts[k] = n})

\* C11 (as stated): no checkpoint directory is added to an artifact twice
\* during one call of train_model.
C11_EachCheckpointUploadedOnce ==
    \A j, k \in 1..Len(wandb.artifacts) :
        wandb.artifacts[j] = wandb.artifacts[k] => j = k

\* C11 (amended): every checkpoint of a run but the last is added to an
\* artifact exactly once; the last checkpoint is added once when it is
\* written and once more when the trial ends, and no checkpoint is added
\* more often than that.
C11_OnlyLastCheckpointUploadedTwice ==
    /\ \A n \in 0..(NumBoostRound - 2) : Uploads(n) <= 1
    /\ Uploads(NumBoostRound - 1) <= 2
    /\ wandb.state = "synced" =>
        /\ \A n \in 0..(NumBoostRound - 2) : Uploads(n) = 1
        /\ Uploads(NumBoostRound - 1) = 2
        /\ Len(wandb.artifacts) = NumBoostRound + 1

C11_Witness ==
    /\ Returned
    /\ wandb.state = "synced"
    /\ Uploads(0) = 1
    /\ Uploads(NumBoostRound - 1) = 2

\* C12: with num_workers = 2, training uses exactly two worker actors, of
\* ranks 0 and 1; the train dataset, which has fewer blocks than workers, is
\* repartitioned to exactly two blocks that hold its rows, so every worker
\* has a block of its own.
C12_TwoWorkersTwoBlocks ==
    /\ Has(train_dataset) => Len(from_pandas(Get(train_dataset))) < NumWorkers
    /\ Has(trial) =>
        LET tr == Get(trial)
            W == 1..Len(tr.workers)
        IN  /\ Len(tr.blocks) = 2
            /\ UNION {tr.blocks[j] : j \in 1..Len(tr.blocks)} = tr.fitted_on
            /\ \A i, j \in 1..Len(tr.blocks) :
                   i # j => tr.blocks[i] \cap tr.blocks[j] = {}
            /\ Len(tr.workers) \in {0, 2}
            /\ \A k \in W : tr.workers[k].block \in 1..Len(tr.blocks)
            /\ \A j, k \in W :
                   tr.workers[j].block = tr.workers[k].block => j = k
            /\ tr.training # "waiting" =>
                /\ Len(tr.workers) = 2
                /\ {tr.workers[k].rank : k \in W} = {0, 1}
                /\ \A j, k \in W :
                       tr.workers[j].rank = tr.workers[k].rank => j = k

C12_Witness ==
    /\ Has(trial)
    /\ Get(trial).training = "started"
    /\ Len(Get(trial).workers) = 2
    /\ Get(trial).workers[1].rank = 0
    /\ Get(trial).workers[2].rank = 1
    /\ Len(Get(trial).blocks) = 2
    /\ Get(trial).blocks[1] # {}
    /\ Get(trial).blocks[2] # {}

Uploaded == {wandb.artifacts[k] : k \in 1..Len(wandb.artifacts)}

\* C13: training starts only after all num_workers actors are created and
\* ready; the first result and the first checkpoint upload come only after
\* training has started; training is reported finished before the final
\* result, the one with done = true.
C13_TrainingOrder ==
    Has(trial) =>
        LET tr == Get(trial)
        IN  /\ tr.training # "waiting" =>
                /\ Len(tr.workers) = NumWorkers
                /\ \A k \in 1..Len(tr.workers) : tr.workers[k].ready
            /\ (tr.results # <<>> \/ tr.checkpoints # <<>>
                    \/ wandb_queue # <<>> \/ wandb.logged # <<>>
                    \/ Uploaded # {})
                => tr.training # "waiting"
            /\ (\E k \in 1..Len(tr.results) : tr.results[k].done)
                => tr.training = "finished"

C13_Witness ==
    /\ Has(trial)
    /\ Get(trial).training = "finished"
    /\ \A k \in 1..Len(Get(trial).workers) : Get(trial).workers[k].ready
    /\ Len(Get(trial).results) = NumBoostRound + 1
    /\ Get(trial).results[NumBoostRound + 1].done
    /\ 0 \in Uploaded

(***************************************************************************)
(* Properties of trainer.fit() in either notebook, checked under           *)
(* SpecNotebooks.                                                          *)
(***************************************************************************)
FitReturned == pc \in {"fit_done", "trained", "predict", "predicted", "returned"}

\* C14: trainer.fit() runs exactly one trial; when fit has returned, that
\* trial is TERMINATED and requests no resources any more: 0 CPUs, 0 GPUs.
C14_OneTrialTerminatedAndReleased ==
    /\ Has(trial) => Get(trial).number = 1
    /\ FitReturned =>
        /\ Has(trial)
        /\ Get(trial).status = "TERMINATED"
        /\ Get(trial).resources.CPU = 0
        /\ Get(trial).resources.GPU = 0
    /\ (Has(trial) /\ Get(trial).status = "RUNNING") =>
        Get(trial).resources.CPU >= 1

C14_Witness ==
    /\ notebook = "sklearn_example"
    /\ pc = "trained"
    /\ Has(result)
    /\ Get(trial).number = 1
    /\ Get(trial).status = "TERMINATED"
    /\ Get(trial).resources = [CPU |-> 0, GPU |-> 0]

(***************************************************************************)
(* More properties of sklearn_example.ipynb, checked under SpecSklearn.    *)
(***************************************************************************)
\* C15: with test_size = 0.3 a dataset of n rows is split into m rows for
\* the validation and test datasets and n - m rows for the train dataset,
\* where m is the ceiling of 3n/10, the least number with 10m >= 3n; for
\* the 569 rows of the breast-cancer data that is 171 and 398.
C15_SplitSizes ==
    /\ Has(prepared) =>
        LET p == Get(prepared)
            m == Len(p.test_dataset)
        IN  /\ 10 * m >= 3 * num_rows
            /\ 10 * (m - 1) < 3 * num_rows
            /\ Len(p.valid_dataset) = m
            /\ Len(p.train_dataset) = num_rows - m
    /\ NumTest(569) = 171
    /\ 569 - NumTest(569) = 398

C15_Witness ==
    /\ Has(prepared)
    /\ num_rows = 4
    /\ Len(Get(prepared).test_dataset) = 2
    /\ Len(Get(prepared).valid_dataset) = 2
    /\ Len(Get(prepared).train_dataset) = 2

\* C16 (as stated): the split predict_sklearn gets from prepare_data is the
\* split train_sklearn got, so the rows predicted are exactly the rows held
\* out of training and none of them was used to fit the model.
C16_PredictsHeldOutRows ==
    (pc \in {"predict", "predicted"} /\ Has(prepared) /\ Has(batch_predictor)) =>
        LET test == RowIds(Get(prepared).test_dataset)
            fitted == Get(batch_predictor).checkpoint.fitted_on
        IN  /\ test \cap fitted = {}
            /\ test \cup fitted = RowIds(dataset_df(num_rows))

(***************************************************************************)
(* The notebook's two pure functions on their own: categorical_column is   *)
(* called with any number of samples, and the label function of            *)
(* predict_sklearn is applied to a batch and then to its own output.       *)
(***************************************************************************)
(* The label l as the number the comparison sees, in tenths. *)
Tenths(l) == 10 * l

(* Values a batch can hold: raw predictions, the two labels, and a value   *)
(* below and above the range of probabilities.                             *)
FrameValues ==
    RawPredictions \cup {Tenths(0), Tenths(1)} \cup {-Half, Tenths(1) + Half}

Batches == UNION {[1..n -> FrameValues] : n \in 0..MaxBatch}

call_categorical_column ==
    /\ samples # Nothing
    /\ column = Nothing
    /\ column' = Some(categorical_column(Get(samples)))
    /\ UNCHANGED <<pc, cuMLRandomForestClassifier, num_rows, args, error,
                   prepared, train_dataset, trainer, trial, result,
                   batch_predictor, predicted_labels, wandb_queue, wandb,
                   notebook, samples, frames, declared, changed, stale,
                   running>>

apply_label_function ==
    /\ frames # <<>>
    /\ Len(frames) <= MaxApplications
    /\ LET labels == map_batches(frames[Len(frames)])
       IN  frames' = Append(frames, [k \in 1..Len(labels) |-> Tenths(labels[k])])
    /\ UNCHANGED <<pc, cuMLRandomForestClassifier, num_rows, args, error,
                   prepared, train_dataset, trainer, trial, result,
                   batch_predictor, predicted_labels, wandb_queue, wandb,
                   notebook, samples, column, declared, changed, stale,
                   running>>

InitFunctions ==
    /\ pc = "ready"
    /\ cuMLRandomForestClassifier = None
    /\ num_rows = MaxRows
    /\ args = Nothing
    /\ error = "none"
    /\ prepared = Nothing
    /\ train_dataset = <<>>
    /\ trainer = Nothing
    /\ trial = Nothing
    /\ result = Nothing
    /\ batch_predictor = Nothing
    /\ predicted_labels = Nothing
    /\ wandb_queue = <<>>
    /\ wandb = WandbOff
    /\ notebook = "sklearn_example"
    /\ samples \in {Some(n) : n \in 0..MaxSamples}
    /\ column = Nothing
    /\ frames \in {<<b>> : b \in Batches}
    /\ declared = 0
    /\ changed = {}
    /\ stale = {}
    /\ running = {}

NextFunctions ==
    \/ call_categorical_column
    \/ apply_label_function

SpecFunctions == InitFunctions /\ [][NextFunctions]_vars

\* C17: for every n >= 0 categorical_column(n) has exactly n values, "A" at
\* the even indices (counted from 0) and "B" at the odd ones; this holds for
\* odd n too, where a list of 2 * ceil(n / 2) values is cut to n.
C17_CategoricalColumnAlternates ==
    Has(column) =>
        LET n == Get(samples)
            col == Get(column)
        IN  /\ Len(col) = n
            /\ \A i \in 0..(n - 1) :
                   col[i + 1] = IF i % 2 = 0 THEN "A" ELSE "B"
            /\ Len(Repeat(<<"A", "B">>, Ceil(n, 2))) = 2 * Ceil(n, 2)
            /\ n % 2 = 1 => 2 * Ceil(n, 2) = n + 1

C17_Witness ==
    /\ Has(column)
    /\ Get(samples) = 3
    /\ Get(column) = <<"A", "B", "A">>

\* C18: a GPU is requested exactly when use_gpu is true.  With use_gpu the
\* trainer's resources are {CPU: 1, GPU: 1}, whatever num_cpus is, and the
\* estimator is cuML's; without it they are {CPU: num_cpus} with no GPU
\* entry and the estimator is scikit-learn's RandomForestClassifier.
\* predict_sklearn passes num_gpus_per_worker = 1 with use_gpu and 0 without.
C18_GpuExactlyWhenAsked ==
    /\ (InTrainSklearn /\ Has(trainer)) =>
        LET a == Get(args)
            r == Get(trainer).scaling_config.trainer_resources
        IN  /\ ("GPU" \in DOMAIN r) <=> a.use_gpu
            /\ IF a.use_gpu
               THEN /\ r = [CPU |-> 1, GPU |-> 1]
                    /\ Get(trainer).estimator = "cuMLRandomForestClassifier"
               ELSE /\ r = [CPU |-> a.num_cpus]
                    /\ Get(trainer).estimator = "RandomForestClassifier"
    /\ (pc \in {"predict", "predicted"} /\ Has(batch_predictor)) =>
        /\ Get(args).use_gpu => Get(batch_predictor).num_gpus_per_worker = 1
        /\ ~Get(args).use_gpu => Get(batch_predictor).num_gpus_per_worker = 0

C18_Witness ==
    /\ InTrainSklearn
    /\ Has(trainer)
    /\ Get(args).use_gpu
    /\ Get(args).num_cpus = 2
    /\ Get(trainer).scaling_config.trainer_resources = [CPU |-> 1, GPU |-> 1]

\* C19: with use_gpu false train_sklearn never raises the cuML RuntimeError
\* and never uses the cuML estimator, whether cuML is installed or not; the
\* failed import alone raises nothing, it only leaves
\* cuMLRandomForestClassifier as None.
C19_NoGpuNoCuml ==
    /\ pc = "ready" => error = "none"
    /\ (InTrainSklearn /\ ~Get(args).use_gpu) =>
        /\ error # "RuntimeError"
        /\ pc # "raised"
        /\ Has(trainer) => Get(trainer).estimator = "RandomForestClassifier"

C19_Witness ==
    /\ InTrainSklearn
    /\ ~Get(args).use_gpu
    /\ cuMLRandomForestClassifier = None
    /\ Has(trainer)
    /\ Get(trainer).estimator = "RandomForestClassifier"
    /\ error = "none"

(***************************************************************************)
(* The label function, checked under SpecFunctions.                        *)
(***************************************************************************)
IsLabels(df) == \A i \in 1..Len(df) : df[i] \in {Tenths(0), Tenths(1)}

\* C20: the label function, x -> 1 if x > 0.5 else 0, is idempotent:
\* applied to its own output it changes nothing, and a batch of 0/1 labels
\* is left as it is.
C20_ThresholdIdempotent ==
    \A k \in 1..(Len(frames) - 1) :
        /\ Len(frames[k + 1]) = Len(frames[k])
        /\ IsLabels(frames[k + 1])
        /\ k >= 2 => frames[k + 1] = frames[k]
        /\ IsLabels(frames[k]) => frames[k + 1] = frames[k]

C20_Witness ==
    /\ Len(frames) = 3
    /\ frames[1] = <<6, 4>>
    /\ frames[2] = <<10, 0>>
    /\ frames[3] = <<10, 0>>

(***************************************************************************)
(* The test manifest: the py_test targets of the examples and the tests    *)
(* section and the py_library train_lib, as the build tool evaluates them, *)
(* finds the tests a changed file reaches, and runs tests on one machine.  *)
(***************************************************************************)
MaxChanged == 2

(* Mutant: train_lib without the exclude list. *)
train_lib_no_exclude ==
    [rule |-> "py_library",
     name |-> "train_lib",
     include |-> <<"**/*.py">>,
     exclude |-> <<>>]

(* py_library(name = "train_lib",                                          *)
(*     srcs = glob(["**/*.py"], exclude=["tests/*.py"]))                   *)
train_lib ==
    [rule |-> "py_library",
     name |-> "train_lib",
     include |-> <<"**/*.py">>,
     exclude |-> <<"tests/*.py">>]

(* The py_test targets, in the order of the manifest. *)
PyTests ==
    <<
     [rule |-> "py_test",
      section |-> "examples",
      name |-> "mlflow_fashion_mnist_example",
      srcs |-> <<"examples/mlflow_fashion_mnist_example.py">>,
      tags |-> <<"team:ml", "exclusive">>,
      deps |-> <<":train_lib">>],
     [rule |-> "py_test",
      section |-> "examples",
      name |-> "mlflow_simple_example",
      srcs |-> <<"examples/mlflow_simple_example.py">>,
      tags |-> <<"team:ml", "exclusive", "no_main">>,
      deps |-> <<":train_lib">>],
     [rule |-> "py_test",
      section |-> "examples",
      name |-> "tensorflow_quick_start",
      srcs |-> <<"examples/tensorflow_quick_start.py">>,
      tags |-> <<"team:ml", "exclusive">>,
      deps |-> <<":train_lib">>],
     [rule |-> "py_test",
      section |-> "examples",
      name |-> "torch_quick_start",
      srcs |-> <<"examples/torch_quick_start.py">>,
      tags |-> <<"team:ml", "exclusive">>,
      deps |-> <<":train_lib">>],
     [rule |-> "py_test",
      section |-> "examples",
      name |-> "torch_tensorboard_profiler_example",
      srcs |-> <<"examples/torch_tensorboard_profiler_example.py">>,
      tags |-> <<"team:ml", "exclusive">>,
      deps |-> <<":train_lib">>],
     [rule |-> "py_test",
      section |-> "examples",
      name |-> "transformers_example",
      srcs |-> <<"examples/transformers/transformers_example.py">>,
      tags |-> <<"team:ml", "exclusive", "tune">>,
      deps |-> <<":train_lib">>],
     [rule |-> "py_test",
      section |-> "examples",
      name |-> "tune_cifar_pytorch_pbt_example",
      srcs |-> <<"examples/tune_cifar_pytorch_pbt_example.py">>,
      tags |-> <<"team:ml", "exclusive", "pytorch", "tune">>,
      deps |-> <<":train_lib">>],
     [rule |-> "py_test",
      section |-> "examples",
      name |-> "tune_linear_dataset_example",
      srcs |-> <<"examples/tune_linear_dataset_example.py">>,
      tags |-> <<"team:ml", "exclusive", "gpu_only", "tune">>,
      deps |-> <<":train_lib">>],
     [rule |-> "py_test",
      section |-> "examples",
      name |-> "tune_linear_example",
      srcs |-> <<"examples/tune_linear_example.py">>,
      tags |-> <<"team:ml", "exclusive", "tune">>,
      deps |-> <<":train_lib">>],
     [rule |-> "py_test",
      section |-> "tests",
      name |-> "pytorch_pbt_failure",
      srcs |-> <<"tests/pytorch_pbt_failure.py">>,
      tags |-> <<"team:ml", "exlusive", "no_main">>,
      deps |-> <<":train_lib">>],
     [rule |-> "py_test",
      section |-> "tests",
      name |-> "test_backend",
      srcs |-> <<"tests/test_backend.py">>,
      tags |-> <<"team:ml", "exclusive">>,
      deps |-> <<":train_lib">>],
     [rule |-> "py_test",
      section |-> "tests",
      name |-> "test_callbacks",
      srcs |-> <<"tests/test_callbacks.py">>,
      tags |-> <<"team:ml", "exclusive">>,
      deps |-> <<":train_lib">>],
     [rule |-> "py_test",
      section |-> "tests",
      name |-> "test_examples",
      srcs |-> <<"tests/test_examples.py">>,
      tags |-> <<"team:ml", "exclusive">>,
      deps |-> <<":train_lib">>],
     [rule |-> "py_test",
      section |-> "tests",
      name |-> "test_gpu",
      srcs |-> <<"tests/test_gpu.py">>,
      tags |-> <<"team:ml", "exclusive", "gpu_only">>,
      deps |-> <<":train_lib">>],
     [rule |-> "py_test",
      section |-> "tests",
      name |-> "test_minimal",
      srcs |-> <<"tests/test_minimal.py">>,
      tags |-> <<"team:ml", "exclusive", "minimal">>,
      deps |-> <<":train_lib">>],
     [rule |-> "py_test",
      section |-> "tests",
      name |-> "test_session",
      srcs |-> <<"tests/test_session.py">>,
      tags |-> <<"team:ml", "exclusive">>,
      deps |-> <<":train_lib">>],
     [rule |-> "py_test",
      section |-> "tests",
      name |-> "test_results_preprocessors",
      srcs |-> <<"tests/test_results_preprocessors.py">>,
      tags |-> <<"team:ml", "exclusive">>,
      deps |-> <<":train_lib">>],
     [rule |-> "py_test",
      section |-> "tests",
      name |-> "test_trainer",
      srcs |-> <<"tests/test_trainer.py">>,
      tags |-> <<"team:ml", "exclusive">>,
      deps |-> <<":train_lib">>],
     [rule |-> "py_test",
      section |-> "tests",
      name |-> "test_tune",
      srcs |-> <<"tests/test_tune.py">>,
      tags |-> <<"team:ml", "exclusive", "tune">>,
      deps |-> <<":train_lib">>],
     [rule |-> "py_test",
      section |-> "tests",
      name |-> "test_utils",
      srcs |-> <<"tests/test_utils.py">>,
      tags |-> <<"team:ml", "exclusive">>,
      deps |-> <<":train_lib">>],
     [rule |-> "py_test",
      section |-> "tests",
      name |-> "test_worker_group",
      srcs |-> <<"tests/test_worker_group.py">>,
      tags |-> <<"team:ml", "exclusive">>,
      deps |-> <<":train_lib">>]
    >>

Manifest == PyTests \o <<train_lib>>

(* The statements evaluated so far. *)
Declared == SubSeq(Manifest, 1, declared)

DeclaredTests == {Declared[k] : k \in {j \in 1..declared : Declared[j].rule = "py_test"}}

TestNames == {PyTests[k].name : k \in 1..Len(PyTests)}

(* A path cut at its slashes. *)
RECURSIVE Split(_, _)
Split(s, acc) ==
    IF s = "" THEN <<acc>>
    ELSE IF Head(s) = "/" THEN <<acc>> \o Split(Tail(s), "")
         ELSE Split(Tail(s), acc \o Head(s))

Segments(path) == Split(path, "")

(* One path segment against one pattern segment: * stands for any run of   *)
(* characters, and a segment holds no slash.                               *)
RECURSIVE SegMatch(_, _)
SegMatch(p, s) ==
    IF p = "" THEN s = ""
    ELSE IF Head(p) = "*"
         THEN SegMatch(Tail(p), s) \/ (s # "" /\ SegMatch(p, Tail(s)))
         ELSE s # "" /\ Head(p) = Head(s) /\ SegMatch(Tail(p), Tail(s))

(* A path against a pattern, segment by segment: ** stands for zero or     *)
(* more whole directories.                                                 *)
RECURSIVE PathMatch(_, _)
PathMatch(ps, fs) ==
    IF ps = <<>> THEN fs = <<>>
    ELSE IF Head(ps) = "**"
         THEN PathMatch(Tail(ps), fs) \/ (fs # <<>> /\ PathMatch(ps, Tail(fs)))
         ELSE /\ fs # <<>>
              /\ SegMatch(Head(ps), Head(fs))
              /\ PathMatch(Tail(ps), Tail(fs))

Matches(pattern, path) == PathMatch(Segments(pattern), Segments(path))

(* Files of the package that can change: sources the manifest names and    *)
(* one file of each kind the patterns tell apart.                          *)
Files ==
    {"trainer.py",
     "README.md",
     "examples/tune_linear_example.py",
     "examples/transformers/transformers_example.py",
     "tests/test_backend.py",
     "tests/pytorch_pbt_failure.py",
     "tests/data.json",
     "tests/util/helper.py"}

(* glob(include, exclude=exclude) *)
glob(include, exclude) ==
    {f \in Files :
        /\ \E k \in 1..Len(include) : Matches(include[k], f)
        /\ ~\E k \in 1..Len(exclude) : Matches(exclude[k], f)}

(* The sources a label in deps stands for. *)
LibrarySources(label) ==
    UNION {glob(lib.include, lib.exclude) :
           lib \in {l \in {train_lib} : ":" \o l.name = label}}

(* The files a test is built from: its srcs and the sources of its deps. *)
Inputs(t) ==
    {t.srcs[k] : k \in 1..Len(t.srcs)}
        \cup UNION {LibrarySources(t.deps[k]) : k \in 1..Len(t.deps)}

(* The tests that are re-run when file f changes. *)
Affected(f) == {PyTests[k].name : k \in {j \in 1..Len(PyTests) : f \in Inputs(PyTests[j])}}

AffectedBy == [f \in Files |-> Affected(f)]

(* A test of another package on the same machine, without special tags. *)
OtherTest == "//other:test"

Tags(name) ==
    UNION {{PyTests[k].tags[i] : i \in 1..Len(PyTests[k].tags)} :
           k \in {j \in 1..Len(PyTests) : PyTests[j].name = name}}

(* A test tagged exclusive runs while no other test runs. *)
IsExclusive(name) == "exclusive" \in Tags(name)

ExclusiveTests == {name \in TestNames : IsExclusive(name)}

declare_target ==
    /\ declared < Len(Manifest)
    /\ declared' = declared + 1
    /\ UNCHANGED <<pc, cuMLRandomForestClassifier, num_rows, args, error,
                   prepared, train_dataset, trainer, trial, result,
                   batch_predictor, predicted_labels, wandb_queue, wandb,
                   notebook, samples, column, frames, changed, stale, running>>

change_file ==
    /\ declared = Len(Manifest)
    /\ Cardinality(changed) < MaxChanged
    /\ \E f \in Files \ changed :
        /\ changed' = changed \cup {f}
        /\ stale' = stale \cup AffectedBy[f]
    /\ UNCHANGED <<pc, cuMLRandomForestClassifier, num_rows, args, error,
                   prepared, train_dataset, trainer, trial, result,
                   batch_predictor, predicted_labels, wandb_queue, wandb,
                   notebook, samples, column, frames, declared, running>>

start_test ==
    /\ declared = Len(Manifest)
    /\ \E t \in (TestNames \cup {OtherTest}) \ running :
        /\ IF t \in ExclusiveTests
           THEN running = {}
           ELSE running \cap ExclusiveTests = {}
        /\ running' = running \cup {t}
    /\ UNCHANGED <<pc, cuMLRandomForestClassifier, num_rows, args, error,
                   prepared, train_dataset, trainer, trial, result,
                   batch_predictor, predicted_labels, wandb_queue, wandb,
                   notebook, samples, column, frames, declared, changed, stale>>

finish_test ==
    /\ \E t \in running : running' = running \ {t}
    /\ UNCHANGED <<pc, cuMLRandomForestClassifier, num_rows, args, error,
                   prepared, train_dataset, trainer, trial, result,
                   batch_predictor, predicted_labels, wandb_queue, wandb,
                   notebook, samples, column, frames, declared, changed, stale>>

(* The stale tests have been run again: nothing is stale any more. *)
rerun_stale_tests ==
    /\ stale # {}
    /\ running = {}
    /\ stale' = {}
    /\ changed' = {}
    /\ UNCHANGED <<pc, cuMLRandomForestClassifier, num_rows, args, error,
                   prepared, train_dataset, trainer, trial, result,
                   batch_predictor, predicted_labels, wandb_queue, wandb,
                   notebook, samples, column, frames, declared, running>>

InitManifest ==
    /\ pc = "ready"
    /\ cuMLRandomForestClassifier = None
    /\ num_rows = MaxRows
    /\ args = Nothing
    /\ error = "none"
    /\ prepared = Nothing
    /\ train_dataset = <<>>
    /\ trainer = Nothing
    /\ trial = Nothing
    /\ result = Nothing
    /\ batch_predictor = Nothing
    /\ predicted_labels = Nothing
    /\ wandb_queue = <<>>
    /\ wandb = WandbOff
    /\ notebook = "sklearn_example"
    /\ samples = Nothing
    /\ column = Nothing
    /\ frames = <<>>
    /\ declared = 0
    /\ changed = {}
    /\ stale = {}
    /\ running = {}

NextManifest ==
    \/ declare_target
    \/ change_file
    \/ start_test
    \/ finish_test
    \/ rerun_stale_tests

SpecManifest == InitManifest /\ [][NextManifest]_vars

(***************************************************************************)
(* Properties of the test manifest, checked under SpecManifest.            *)
(***************************************************************************)
(* The characters of target names, in their order. *)
Alphabet == "_abcdefghijklmnopqrstuvwxyz"

Rank(c) == CHOOSE k \in 1..Len(Alphabet) : SubSeq(Alphabet, k, k) = c

(* a is b or comes before b in alphabetical order. *)
RECURSIVE NotAfter(_, _)
NotAfter(a, b) ==
    IF a = "" THEN TRUE
    ELSE IF b = "" THEN FALSE
    ELSE IF Head(a) = Head(b) THEN NotAfter(Tail(a), Tail(b))
    ELSE Rank(Head(a)) < Rank(Head(b))

\* C21 (as stated): the py_test targets of the examples section and those of
\* the tests section are each listed in alphabetical order of their name.
C21_SectionsSorted ==
    \A i, j \in 1..declared :
        (/\ i < j
         /\ Declared[i].rule = "py_test"
         /\ Declared[j].rule = "py_test"
         /\ Declared[i].section = Declared[j].section)
            => NotAfter(Declared[i].name, Declared[j].name)

EndsWith(s, suffix) ==
    /\ Len(s) >= Len(suffix)
    /\ SubSeq(s, Len(s) - Len(suffix) + 1, Len(s)) = suffix

(* The file is in tests/ or in a directory below it. *)
InTests(f) == Len(Segments(f)) >= 2 /\ Head(Segments(f)) = "tests"

(* The file is in tests/ itself. *)
DirectlyInTests(f) == Len(Segments(f)) = 2 /\ Head(Segments(f)) = "tests"

(* The tests that name the file in their own srcs. *)
NamedIn(f) ==
    {PyTests[k].name : k \in {j \in 1..Len(PyTests) :
        \E i \in 1..Len(PyTests[j].srcs) : PyTests[j].srcs[i] = f}}

AllDepend ==
    \A t \in DeclaredTests : \E k \in 1..Len(t.deps) : t.deps[k] = ":train_lib"

\* C22 (as stated): every py_test target lists ":train_lib" in its deps; a
\* change to a .py file outside tests/ makes every listed test stale, and a
\* change to a file in tests/ reaches no test but the ones that name it in
\* their own srcs.
C22_TestsDirChangesStayLocal ==
    /\ AllDepend
    /\ \A f \in changed :
        /\ (EndsWith(f, ".py") /\ ~InTests(f)) => TestNames \subseteq stale
    /\ (\A f \in changed : InTests(f)) =>
        stale \subseteq UNION {NamedIn(f) : f \in changed}

\* C22 (amended): every py_test target lists ":train_lib" in its deps; the
\* sources of train_lib are the .py files that are not in tests/ itself; a
\* change to any of them, a .py file in a directory below tests/ included,
\* makes every listed test stale, and a change to a file in tests/ itself,
\* or to a file that is no .py file, reaches no test but the ones that name
\* it in their own srcs.
C22_DirectTestFilesStayLocal ==
    /\ AllDepend
    /\ glob(train_lib.include, train_lib.exclude)
        = {f \in Files : EndsWith(f, ".py") /\ ~DirectlyInTests(f)}
    /\ \A f \in changed :
        (EndsWith(f, ".py") /\ ~DirectlyInTests(f)) => stale = TestNames
    /\ (\A f \in changed : DirectlyInTests(f) \/ ~EndsWith(f, ".py")) =>
        stale = UNION {NamedIn(f) : f \in changed}

C22_Witness ==
    /\ declared = Len(Manifest)
    /\ changed = {"tests/test_backend.py"}
    /\ stale = {"test_backend"}

\* C23 (as stated): every py_test target carries the tags "team:ml" and
\* "exclusive", so no listed test runs while another test runs on the
\* machine.
C23_AllTestsExclusive ==
    /\ \A t \in DeclaredTests :
        {"team:ml", "exclusive"} \subseteq {t.tags[k] : k \in 1..Len(t.tags)}
    /\ \A t \in running \cap TestNames : running = {t}

====
